---- MODULE Spec2Model ----
(***************************************************************************)
(* Role resolution (the customSession callback of auth.ts) over the two    *)
(* Prisma tables platformUser and instructorSearch, and the three role     *)
(* gates requireAdmin / requireInstructor / requireStudent.                *)
(*                                                                         *)
(* Every `await prisma...` of the callback is one atomic step of the       *)
(* store; the callback's own code between two awaits runs with the step    *)
(* that precedes it.  Several callbacks (requests) are in flight at once.  *)
(***************************************************************************)
EXTENDS Integers, Sequences, FiniteSets, TLC

\* number of callbacks that can be in flight
NumProcs == 2

Procs == 1..NumProcs

\* user.id values handed over by the auth library
Subjects == {"u1", "u2"}

NoUser == [none |-> TRUE]
NoRow == [none |-> TRUE]
NoResp == [none |-> TRUE]

-----------------------------------------------------------------------------
(* Emails are sequences of characters.                                      *)

Digit == {"0", "1", "2", "3", "4", "5", "6", "7", "8", "9"}

StudentDomain ==
    <<"@", "e", "m", "a", "i", "l", ".", "k", "m", "u", "t", "n", "b", ".", "a", "c", ".", "t", "h">>

ItmDomain ==
    <<"@", "i", "t", "m", ".", "k", "m", "u", "t", "n", "b", ".", "a", "c", ".", "t", "h">>

GmailDomain ==
    <<"@", "g", "m", "a", "i", "l", ".", "c", "o", "m">>

StudentLocal ==
    <<"s", "6", "4", "0", "6", "0", "2", "1", "2", "3", "4", "5", "6", "7">>

StudentMail == StudentLocal \o StudentDomain
ProfMail == <<"p", "r", "o", "f">> \o ItmDomain
OutsideMail == StudentLocal \o GmailDomain

Emails == {StudentMail, ProfMail, OutsideMail}

\* Emails put together from well-formed and ill-formed parts, to try the two
\* email tests on: <prefix><year><programme><number><domain>
GoodYears == {<<"6", "4">>, <<"0", "9">>}
GoodNumbers == {<<"1", "2", "3", "4", "5", "6", "7">>, <<"0", "0", "0", "0", "0", "0", "1">>}

PrefixParts == {<<"s">>, <<"p">>, <<"x", "s">>}
YearParts == GoodYears \cup {<<"6", "x">>}
ProgrammeParts == {<<"0", "6", "0", "2">>, <<"0", "6", "0", "3">>}
NumberParts ==
    GoodNumbers \cup {<<"0", "0", "1">>, <<"1", "2", "3", "4", "5", "6", "7", "8">>,
                      <<"1", "2", "3", "4", "5", "6", "a">>}
DomainParts ==
    {StudentDomain, ItmDomain, GmailDomain,
     StudentDomain \o <<".", "c", "o">>,
     <<"@", "e", "m", "a", "i", "l", "x", "k", "m", "u", "t", "n", "b", ".", "a", "c", ".", "t", "h">>,
     <<"@", "x", "i", "t", "m", ".", "k", "m", "u", "t", "n", "b", ".", "a", "c", ".", "t", "h">>}

LocalParts ==
    {pre \o yy \o prog \o num :
        pre \in PrefixParts, yy \in YearParts, prog \in ProgrammeParts, num \in NumberParts}

ClassifyInputs == {l \o dom : l \in LocalParts, dom \in DomainParts} \cup Emails

\* s, two digits, 0602, seven digits, at the student mail domain
StudentShaped ==
    {<<"s">> \o yy \o <<"0", "6", "0", "2">> \o num \o StudentDomain :
        yy \in GoodYears, num \in GoodNumbers}

\* anything at the department's own domain
AtItmDomain == {l \o ItmDomain : l \in LocalParts} \cup {ProfMail}

endsWith(s, suffix) ==
    /\ Len(s) >= Len(suffix)
    /\ SubSeq(s, Len(s) - Len(suffix) + 1, Len(s)) = suffix

\* the pattern without its end anchor: /^s\d{2}0602\d{7}@email\.kmutnb\.ac\.th/
studentEmailPatternNoEnd(email) ==
    /\ Len(email) >= 14 + Len(StudentDomain)
    /\ email[1] = "s"
    /\ \A i \in 2..3 : email[i] \in Digit
    /\ SubSeq(email, 4, 7) = <<"0", "6", "0", "2">>
    /\ \A i \in 8..14 : email[i] \in Digit
    /\ SubSeq(email, 15, 14 + Len(StudentDomain)) = StudentDomain

\* /^s\d{2}0602\d{7}@email\.kmutnb\.ac\.th$/.test(email)
studentEmailPattern(email) ==
    /\ Len(email) = 14 + Len(StudentDomain)
    /\ email[1] = "s"
    /\ \A i \in 2..3 : email[i] \in Digit
    /\ SubSeq(email, 4, 7) = <<"0", "6", "0", "2">>
    /\ \A i \in 8..14 : email[i] \in Digit
    /\ SubSeq(email, 15, Len(email)) = StudentDomain

isItDepartmentEmail(email) ==
    endsWith(email, ItmDomain) \/ studentEmailPattern(email)

isInstructorEmail(email) ==
    isItDepartmentEmail(email) /\ ~studentEmailPattern(email)

-----------------------------------------------------------------------------
ErrDomain == "Unauthorized: Email is not from IT Department"
ErrNotListed == "Unauthorized: Instructor email not found in listing"
\* Prisma's error for a violated unique constraint
ErrUnique == "P2002"
ErrStorage == "StorageUnavailable"

Error(msg) == [kind |-> "error", message |-> msg]
NoOutcome == [kind |-> "none"]

\* return { user: { ...user, id: platformUser.id, role: platformUser.role }, session }
Augmented(row) == [kind |-> "ok", id |-> row.id, role |-> row.role]

VARIABLES
    platformUser,      \* table: set of rows [id, userId, role]
    instructorSearch,  \* table: set of rows [email, havePlatformId]
    pc,                \* pc[p]: the await the callback p is suspended at
    user,              \* user[p]: the { id, email } the callback was called with
    local,             \* local[p]: the callback's variable platformUser
    outcome,           \* outcome[p]: what the callback returned or threw
    storeOps,          \* storeOps[p]: the prisma calls p has completed
    created,           \* created[p]: ids of the rows p inserted
    flipped,           \* flipped[p]: emails whose havePlatformId p set
    entryAtCall,       \* entryAtCall[p]: the allow-list entry when p was called
    gateResp           \* the answer of the gate a request was put through

vars == <<platformUser, instructorSearch, pc, user, local, outcome, storeOps,
          created, flipped, entryAtCall, gateResp>>

procVars == <<pc, user, local, outcome, storeOps, created, flipped, entryAtCall>>

-----------------------------------------------------------------------------
(* The store.                                                               *)

\* state of the allow-list entry of an email
EntryState(email) ==
    IF \E r \in instructorSearch : r.email = email
    THEN IF [email |-> email, havePlatformId |-> TRUE] \in instructorSearch
         THEN "consumed" ELSE "unconsumed"
    ELSE "absent"

\* prisma.platformUser.findUnique({ where: { userId } })
platformUserFindUnique(userId) ==
    IF \E r \in platformUser : r.userId = userId
    THEN CHOOSE r \in platformUser : r.userId = userId
    ELSE NoRow

\* a lookup by email alone, without the havePlatformId filter
instructorSearchFindUniqueAnyFlag(email) ==
    IF \E r \in instructorSearch : r.email = email
    THEN CHOOSE r \in instructorSearch : r.email = email
    ELSE NoRow

\* prisma.instructorSearch.findUnique({ where: { email, havePlatformId: false } })
instructorSearchFindUnique(email) ==
    IF [email |-> email, havePlatformId |-> FALSE] \in instructorSearch
    THEN [email |-> email, havePlatformId |-> FALSE]
    ELSE NoRow

\* userId is a unique column of platformUser: an insert of a taken userId is refused
platformUserUserIdTaken(userId) ==
    \E r \in platformUser : r.userId = userId

\* the row prisma.platformUser.create({ data: { userId, role } }) inserts
NewRow(userId, role) ==
    [id |-> Cardinality(platformUser) + 1, userId |-> userId, role |-> role]

\* an update that inverts the flag instead of setting it
instructorSearchUpdateToggle(email) ==
    {IF r.email = email THEN [r EXCEPT !.havePlatformId = ~@] ELSE r :
        r \in instructorSearch}

\* prisma.instructorSearch.update({ where: { email }, data: { havePlatformId: true } })
instructorSearchUpdate(email) ==
    {IF r.email = email THEN [r EXCEPT !.havePlatformId = TRUE] ELSE r :
        r \in instructorSearch}

-----------------------------------------------------------------------------
\* the rows an administrator may have put in platformUser beforehand
ProvisionedAdmins == {{}, {[id |-> 1, userId |-> "u2", role |-> "ADMIN"]}}

Init ==
    /\ platformUser \in ProvisionedAdmins
    /\ instructorSearch = {}
    /\ pc = [p \in Procs |-> "idle"]
    /\ user = [p \in Procs |-> NoUser]
    /\ local = [p \in Procs |-> NoRow]
    /\ outcome = [p \in Procs |-> NoOutcome]
    /\ storeOps = [p \in Procs |-> {}]
    /\ created = [p \in Procs |-> {}]
    /\ flipped = [p \in Procs |-> {}]
    /\ entryAtCall = [p \in Procs |-> "absent"]
    /\ gateResp = NoResp

\* an administrator lists an instructor email (out of band); the callback reads
\* and updates the entries of instructor emails only
Provision(e) ==
    /\ isInstructorEmail(e)
    /\ EntryState(e) = "absent"
    /\ instructorSearch' = instructorSearch \cup {[email |-> e, havePlatformId |-> FALSE]}
    /\ UNCHANGED <<platformUser, procVars, gateResp>>

\* a callback that goes to the store without the domain check
CallNoDomainCheck(p, u, e) ==
    /\ pc[p] = "idle"
    /\ user' = [user EXCEPT ![p] = [id |-> u, email |-> e]]
    /\ entryAtCall' = [entryAtCall EXCEPT ![p] = EntryState(e)]
    /\ pc' = [pc EXCEPT ![p] = "findUser"]
    /\ UNCHANGED <<platformUser, instructorSearch, local, outcome, storeOps, created,
                   flipped, gateResp>>

\* customSession(async ({ user, session }) => { if (!isItDepartmentEmail(...)) throw ...
Call(p, u, e) ==
    /\ pc[p] = "idle"
    /\ user' = [user EXCEPT ![p] = [id |-> u, email |-> e]]
    /\ entryAtCall' = [entryAtCall EXCEPT ![p] = EntryState(e)]
    /\ IF ~isItDepartmentEmail(e)
       THEN /\ pc' = [pc EXCEPT ![p] = "failed"]
            /\ outcome' = [outcome EXCEPT ![p] = Error(ErrDomain)]
       ELSE /\ pc' = [pc EXCEPT ![p] = "findUser"]
            /\ UNCHANGED outcome
    /\ UNCHANGED <<platformUser, instructorSearch, local, storeOps, created, flipped, gateResp>>

\* a lookup that brings the role of a found row in line with the email's class
FindUserSyncRole(p) ==
    /\ pc[p] = "findUser"
    /\ LET row == platformUserFindUnique(user[p].id)
           synced == IF row = NoRow THEN NoRow
                     ELSE [row EXCEPT !.role =
                            IF isInstructorEmail(user[p].email) THEN "INSTRUCTOR"
                            ELSE "STUDENT"]
       IN
        /\ local' = [local EXCEPT ![p] = synced]
        /\ storeOps' = [storeOps EXCEPT ![p] = @ \cup {"platformUser.findUnique"}]
        /\ IF row # NoRow
           THEN /\ pc' = [pc EXCEPT ![p] = "done"]
                /\ outcome' = [outcome EXCEPT ![p] = Augmented(synced)]
                /\ platformUser' = (platformUser \ {row}) \cup {synced}
           ELSE /\ pc' = [pc EXCEPT ![p] =
                        IF isInstructorEmail(user[p].email) THEN "findListing"
                        ELSE "createStudent"]
                /\ UNCHANGED <<outcome, platformUser>>
    /\ UNCHANGED <<instructorSearch, user, created, flipped, entryAtCall, gateResp>>

\* let platformUser = await prisma.platformUser.findUnique(...); if (!platformUser) ...
FindUser(p) ==
    /\ pc[p] = "findUser"
    /\ LET row == platformUserFindUnique(user[p].id) IN
        /\ local' = [local EXCEPT ![p] = row]
        /\ storeOps' = [storeOps EXCEPT ![p] = @ \cup {"platformUser.findUnique"}]
        /\ IF row # NoRow
           THEN /\ pc' = [pc EXCEPT ![p] = "done"]
                /\ outcome' = [outcome EXCEPT ![p] = Augmented(row)]
           ELSE /\ pc' = [pc EXCEPT ![p] =
                        IF isInstructorEmail(user[p].email) THEN "findListing"
                        ELSE "createStudent"]
                /\ UNCHANGED outcome
    /\ UNCHANGED <<platformUser, instructorSearch, user, created, flipped, entryAtCall, gateResp>>

\* an allow-list lookup whose miss is thrown only after the row was created
FindListingThrowAfterCreate(p) ==
    /\ pc[p] = "findListing"
    /\ IF instructorSearchFindUnique(user[p].email) = NoRow
       THEN LET row == NewRow(user[p].id, "INSTRUCTOR") IN
            /\ pc' = [pc EXCEPT ![p] = "failed"]
            /\ outcome' = [outcome EXCEPT ![p] = Error(ErrNotListed)]
            /\ storeOps' = [storeOps EXCEPT ![p] =
                    @ \cup {"instructorSearch.findUnique", "platformUser.create"}]
            /\ IF platformUserUserIdTaken(user[p].id)
               THEN UNCHANGED <<platformUser, created>>
               ELSE /\ platformUser' = platformUser \cup {row}
                    /\ created' = [created EXCEPT ![p] = @ \cup {row.id}]
       ELSE /\ pc' = [pc EXCEPT ![p] = "createInstructor"]
            /\ storeOps' = [storeOps EXCEPT ![p] = @ \cup {"instructorSearch.findUnique"}]
            /\ UNCHANGED <<outcome, platformUser, created>>
    /\ UNCHANGED <<instructorSearch, user, local, flipped, entryAtCall, gateResp>>

\* an allow-list lookup whose miss is not thrown
FindListingNoThrow(p) ==
    /\ pc[p] = "findListing"
    /\ storeOps' = [storeOps EXCEPT ![p] = @ \cup {"instructorSearch.findUnique"}]
    /\ pc' = [pc EXCEPT ![p] = "createInstructor"]
    /\ UNCHANGED <<platformUser, instructorSearch, user, local, outcome, created, flipped,
                   entryAtCall, gateResp>>

\* const findMailListing = await prisma.instructorSearch.findUnique(...); if (!findMailListing) throw
FindListing(p) ==
    /\ pc[p] = "findListing"
    /\ storeOps' = [storeOps EXCEPT ![p] = @ \cup {"instructorSearch.findUnique"}]
    /\ IF instructorSearchFindUnique(user[p].email) = NoRow
       THEN /\ pc' = [pc EXCEPT ![p] = "failed"]
            /\ outcome' = [outcome EXCEPT ![p] = Error(ErrNotListed)]
       ELSE /\ pc' = [pc EXCEPT ![p] = "createInstructor"]
            /\ UNCHANGED outcome
    /\ UNCHANGED <<platformUser, instructorSearch, user, local, created, flipped, entryAtCall, gateResp>>

\* a create that builds the row and hands it back without storing it
CreateNotStored(p, role, nextPc) ==
    /\ storeOps' = [storeOps EXCEPT ![p] = @ \cup {"platformUser.create"}]
    /\ IF platformUserUserIdTaken(user[p].id)
       THEN /\ pc' = [pc EXCEPT ![p] = "failed"]
            /\ outcome' = [outcome EXCEPT ![p] = Error(ErrUnique)]
            /\ UNCHANGED <<platformUser, local, created>>
       ELSE LET row == NewRow(user[p].id, role) IN
            /\ UNCHANGED platformUser
            /\ local' = [local EXCEPT ![p] = row]
            /\ created' = [created EXCEPT ![p] = @ \cup {row.id}]
            /\ pc' = [pc EXCEPT ![p] = nextPc]
            /\ outcome' = [outcome EXCEPT ![p] =
                    IF nextPc = "done" THEN Augmented(row) ELSE @]
    /\ UNCHANGED <<instructorSearch, user, flipped, entryAtCall, gateResp>>

\* platformUser = await prisma.platformUser.create({ data: { userId, role } })
Create(p, role, nextPc) ==
    /\ storeOps' = [storeOps EXCEPT ![p] = @ \cup {"platformUser.create"}]
    /\ IF platformUserUserIdTaken(user[p].id)
       THEN /\ pc' = [pc EXCEPT ![p] = "failed"]
            /\ outcome' = [outcome EXCEPT ![p] = Error(ErrUnique)]
            /\ UNCHANGED <<platformUser, local, created>>
       ELSE LET row == NewRow(user[p].id, role) IN
            /\ platformUser' = platformUser \cup {row}
            /\ local' = [local EXCEPT ![p] = row]
            /\ created' = [created EXCEPT ![p] = @ \cup {row.id}]
            /\ pc' = [pc EXCEPT ![p] = nextPc]
            /\ outcome' = [outcome EXCEPT ![p] =
                    IF nextPc = "done" THEN Augmented(row) ELSE @]
    /\ UNCHANGED <<instructorSearch, user, flipped, entryAtCall, gateResp>>

\* an instructor branch that creates with role ADMIN
CreateInstructorAsAdmin(p) ==
    /\ pc[p] = "createInstructor"
    /\ Create(p, "ADMIN", "updateListing")

\* the create of the instructor branch
CreateInstructor(p) ==
    /\ pc[p] = "createInstructor"
    /\ Create(p, "INSTRUCTOR", "updateListing")

\* await prisma.instructorSearch.update(...); return { user: {...}, session }
UpdateListing(p) ==
    /\ pc[p] = "updateListing"
    /\ instructorSearch' = instructorSearchUpdate(user[p].email)
    /\ storeOps' = [storeOps EXCEPT ![p] = @ \cup {"instructorSearch.update"}]
    /\ flipped' = [flipped EXCEPT ![p] =
            IF EntryState(user[p].email) = "unconsumed" THEN @ \cup {user[p].email} ELSE @]
    /\ pc' = [pc EXCEPT ![p] = "done"]
    /\ outcome' = [outcome EXCEPT ![p] = Augmented(local[p])]
    /\ UNCHANGED <<platformUser, user, local, created, entryAtCall, gateResp>>

\* a student branch that creates with the role of the instructor branch
CreateStudentWrongRole(p) ==
    /\ pc[p] = "createStudent"
    /\ Create(p, "INSTRUCTOR", "done")

\* the create of the student branch, and the return
CreateStudent(p) ==
    /\ pc[p] = "createStudent"
    /\ Create(p, "STUDENT", "done")

-----------------------------------------------------------------------------
(* The role gates.                                                          *)

Json(status, message) == [status |-> status, message |-> message, next |-> 0]

\* await next(): the gate itself answers nothing
Forward == [status |-> 0, message |-> "", next |-> 1]

\* c.get("user") on the request served from the callback p's session
CtxUser(p) ==
    IF outcome[p].kind = "ok"
    THEN [id |-> outcome[p].id, role |-> outcome[p].role]
    ELSE NoUser

requireAdmin(u) ==
    IF u = NoUser THEN Json(401, "Unauthorized: No active session")
    ELSE IF u.role # "ADMIN" THEN Json(403, "Forbidden: Admins only")
    ELSE Forward

\* an instructor gate without the check for a missing user
requireInstructorNoSessionCheck(u) ==
    IF u # NoUser /\ u.role = "STUDENT"
    THEN Json(403, "Forbidden: Instructors and Admins only")
    ELSE Forward

requireInstructor(u) ==
    IF u = NoUser THEN Json(401, "Unauthorized: No active session")
    ELSE IF u.role = "STUDENT" THEN Json(403, "Forbidden: Instructors and Admins only")
    ELSE Forward

\* a student gate that ranks the roles: ADMIN passes as well
requireStudentRanked(u) ==
    IF u = NoUser THEN Json(401, "Unauthorized: No active session")
    ELSE IF u.role = "INSTRUCTOR" THEN Json(403, "Forbidden: Students only")
    ELSE Forward

requireStudent(u) ==
    IF u = NoUser THEN Json(401, "Unauthorized: No active session")
    ELSE IF u.role # "STUDENT" THEN Json(403, "Forbidden: Students only")
    ELSE Forward

\* one request is put through one gate
GateAnswer(p, gate, r) ==
    /\ pc[p] \in {"done", "failed"}
    /\ gateResp = NoResp
    /\ gateResp' = [proc |-> p, gate |-> gate, user |-> CtxUser(p), status |-> r.status,
                    message |-> r.message, next |-> r.next]
    /\ UNCHANGED <<platformUser, instructorSearch, procVars>>

RequireAdmin(p) == GateAnswer(p, "requireAdmin", requireAdmin(CtxUser(p)))

RequireInstructor(p) == GateAnswer(p, "requireInstructor", requireInstructor(CtxUser(p)))

RequireStudent(p) == GateAnswer(p, "requireStudent", requireStudent(CtxUser(p)))

-----------------------------------------------------------------------------
\* the prisma call the callback is suspended at rejects (the store is unreachable)
\* or the process dies there: the callback ends with the error, nothing after runs
StorageFail(p) ==
    /\ pc[p] \in {"findUser", "findListing", "createInstructor", "updateListing", "createStudent"}
    /\ pc' = [pc EXCEPT ![p] = "failed"]
    /\ outcome' = [outcome EXCEPT ![p] = Error(ErrStorage)]
    /\ UNCHANGED <<platformUser, instructorSearch, user, local, storeOps, created,
                   flipped, entryAtCall, gateResp>>

Next ==
    \/ \E e \in Emails : Provision(e)
    \/ \E p \in Procs, u \in Subjects, e \in Emails : Call(p, u, e)
    \/ \E p \in Procs : FindUser(p)
    \/ \E p \in Procs : FindListing(p)
    \/ \E p \in Procs : CreateInstructor(p)
    \/ \E p \in Procs : UpdateListing(p)
    \/ \E p \in Procs : CreateStudent(p)
    \/ \E p \in Procs : RequireAdmin(p)
    \/ \E p \in Procs : RequireInstructor(p)
    \/ \E p \in Procs : RequireStudent(p)

Spec == Init /\ [][Next]_vars

NextFault ==
    \/ Next
    \/ \E p \in Procs : StorageFail(p)

\* the same program over a store whose calls can fail
SpecFault == Init /\ [][NextFault]_vars

-----------------------------------------------------------------------------
(* Vocabulary of the properties.                                            *)

Called(p) == user[p] # NoUser

Finished(p) == pc[p] \in {"done", "failed"}

\* the callback returned the row its lookup by userId found
FoundAtLookup(p) == pc[p] = "done" /\ created[p] = {}

RowsOf(userId) == {r \in platformUser : r.userId = userId}

\* the INSTRUCTOR rows the callback p inserted
InstructorRowsOf(p) == {r \in platformUser : r.id \in created[p] /\ r.role = "INSTRUCTOR"}

\* the email of p had no unconsumed allow-list entry at any moment since p was called
\* (an entry goes from absent to unconsumed to consumed, never back)
NeverListed(p) ==
    entryAtCall[p] = "consumed" \/ EntryState(user[p].email) = "absent"

-----------------------------------------------------------------------------
\* C1: of two callbacks called by different subjects with the same instructor
\* email, at most one creates an INSTRUCTOR row (one allow-list entry gives at
\* most one INSTRUCTOR identity); the other creates nothing.
C1_OneInstructorPerEntry ==
    \A p, q \in Procs :
        (/\ p # q /\ Called(p) /\ Called(q)
         /\ user[p].email = user[q].email
         /\ user[p].id # user[q].id
         /\ isInstructorEmail(user[p].email)
         /\ InstructorRowsOf(p) # {})
        => created[q] = {}

\* C2: no two rows of platformUser have the same userId, and once a callback for
\* an accepted email (a student email, or an instructor email listed when it was
\* called and used by this subject only) has ended, the table holds exactly one
\* row for its subject.
C2_OneRowPerSubject ==
    /\ \A r1, r2 \in platformUser : r1.userId = r2.userId => r1 = r2
    /\ \A p \in Procs :
        (/\ Called(p) /\ Finished(p)
         /\ \/ studentEmailPattern(user[p].email)
            \/ /\ isInstructorEmail(user[p].email)
               /\ entryAtCall[p] = "unconsumed"
               /\ \A q \in Procs :
                    (Called(q) /\ user[q].email = user[p].email) => user[q].id = user[p].id)
        => Cardinality(RowsOf(user[p].id)) = 1

\* C2 witness: two callbacks of the same subject and email both got past the
\* lookup (both went for the create) and both have ended.
C2_Witness ==
    \E p, q \in Procs :
        /\ p # q /\ Called(p) /\ Called(q) /\ user[p] = user[q]
        /\ Finished(p) /\ Finished(q)
        /\ "platformUser.create" \in storeOps[p]
        /\ "platformUser.create" \in storeOps[q]

\* C3: every INSTRUCTOR row stored has a consumed allow-list entry for the email
\* it was created for, in every state.
C3_InstructorHasConsumedEntry ==
    \A p \in Procs :
        InstructorRowsOf(p) # {} => EntryState(user[p].email) = "consumed"

\* C4: a callback that ended in a storage error left both tables as they were:
\* it inserted no row and consumed no entry.
C4_FailureLeavesNothing ==
    \A p \in Procs :
        (pc[p] = "failed" /\ outcome[p] = Error(ErrStorage))
        => (created[p] = {} /\ flipped[p] = {})

\* C5: a consumed entry is never matched again: a callback called for an
\* instructor email whose entry was already consumed, and whose lookup by userId
\* found no row, fails with the not-listed error and inserts no row.
C5_ConsumedNeverMatched ==
    \A p \in Procs :
        (/\ Called(p) /\ isInstructorEmail(user[p].email)
         /\ entryAtCall[p] = "consumed")
        => /\ created[p] = {} /\ flipped[p] = {}
           /\ pc[p] # "createInstructor" /\ pc[p] # "updateListing"
           /\ (Finished(p) /\ ~FoundAtLookup(p)) => outcome[p] = Error(ErrNotListed)

\* C5 witness: p created the INSTRUCTOR row for the email and consumed the entry;
\* q, another subject, was called afterwards with the same email and was refused.
C5_Witness ==
    \E p, q \in Procs :
        /\ p # q /\ Called(p) /\ Called(q)
        /\ pc[p] = "done" /\ InstructorRowsOf(p) # {} /\ user[p].email \in flipped[p]
        /\ user[q].email = user[p].email /\ user[q].id # user[p].id
        /\ entryAtCall[q] = "consumed"
        /\ outcome[q] = Error(ErrNotListed)
        /\ RowsOf(user[q].id) = {}

\* C6: a callback called with an email outside the department has failed with
\* the domain error without any store call: it inserted no row and changed no
\* allow-list entry, whatever the subject.
C6_RejectedBeforeStore ==
    \A p \in Procs :
        (Called(p) /\ ~isItDepartmentEmail(user[p].email))
        => /\ pc[p] = "failed"
           /\ outcome[p] = Error(ErrDomain)
           /\ storeOps[p] = {}
           /\ created[p] = {} /\ flipped[p] = {}

\* C6 witness: a rejected callback of a subject that already has a row.
C6_Witness ==
    \E p \in Procs :
        /\ Called(p) /\ ~isItDepartmentEmail(user[p].email)
        /\ outcome[p] = Error(ErrDomain)
        /\ RowsOf(user[p].id) # {}

\* C7 (as stated): a callback for an instructor email that never had an
\* unconsumed entry fails, whatever the subject, and inserts no row.
C7_AlwaysFails ==
    \A p \in Procs :
        (Called(p) /\ isInstructorEmail(user[p].email) /\ NeverListed(p))
        => (pc[p] # "done" /\ created[p] = {})

\* C7 (amended): a callback for an instructor email that never had an unconsumed
\* entry inserts no row and consumes nothing; it fails with the not-listed error
\* when its lookup by userId found no row, and it succeeds only by returning the
\* row that lookup found.
C7_FailsUnlessKnown ==
    \A p \in Procs :
        (Called(p) /\ isInstructorEmail(user[p].email) /\ NeverListed(p))
        => /\ created[p] = {} /\ flipped[p] = {}
           /\ pc[p] = "done" =>
                (local[p] \in RowsOf(user[p].id) /\ outcome[p] = Augmented(local[p]))
           /\ pc[p] = "failed" => outcome[p] = Error(ErrNotListed)

\* C7 witness: an unknown subject was refused for an instructor email that has no
\* entry at all.
C7_Witness ==
    \E p \in Procs :
        /\ Called(p) /\ isInstructorEmail(user[p].email)
        /\ EntryState(user[p].email) = "absent"
        /\ RowsOf(user[p].id) = {}
        /\ "instructorSearch.findUnique" \in storeOps[p]
        /\ outcome[p] = Error(ErrNotListed)

\* C8: a callback for a student email that found no row and returned has inserted
\* exactly one row, with role STUDENT and its subject as userId, and returned it;
\* callbacks of one subject that returned all returned the same id and role; and a
\* callback that found the row made one store call and wrote nothing.
C8_StudentCreateIdempotent ==
    /\ \A p \in Procs :
        (Called(p) /\ studentEmailPattern(user[p].email) /\ pc[p] = "done"
            /\ ~FoundAtLookup(p))
        => /\ Cardinality(created[p]) = 1
           /\ local[p].role = "STUDENT"
           /\ local[p].userId = user[p].id
           /\ RowsOf(user[p].id) = {local[p]}
           /\ outcome[p] = Augmented(local[p])
    /\ \A p, q \in Procs :
        (Called(p) /\ Called(q) /\ user[p].id = user[q].id
            /\ pc[p] = "done" /\ pc[q] = "done")
        => outcome[p] = outcome[q]
    /\ \A p \in Procs :
        FoundAtLookup(p)
        => /\ storeOps[p] = {"platformUser.findUnique"}
           /\ flipped[p] = {}
           /\ RowsOf(user[p].id) = {local[p]}

\* C8 witness: a first callback created the STUDENT row of a subject and a second
\* callback of the same subject and email got the same identity back.
C8_Witness ==
    \E p, q \in Procs :
        /\ p # q /\ Called(p) /\ Called(q) /\ user[p] = user[q]
        /\ studentEmailPattern(user[p].email)
        /\ pc[p] = "done" /\ created[p] # {}
        /\ FoundAtLookup(q)
        /\ outcome[q] = outcome[p]

\* C9: no step removes or alters a row of platformUser, and the step in which a
\* callback finds the row of its subject writes to neither table and returns that
\* row; a callback that has returned writes nothing more.
C9_FoundMeansNoWrite ==
    [][/\ \A r \in platformUser : r \in platformUser'
       /\ \A p \in Procs :
            /\ (pc[p] = "findUser" /\ pc'[p] # "findUser" /\ RowsOf(user[p].id) # {})
               => /\ pc'[p] = "done"
                  /\ platformUser' = platformUser
                  /\ instructorSearch' = instructorSearch
                  /\ outcome'[p] = Augmented(CHOOSE r \in RowsOf(user[p].id) : TRUE)
                  /\ created'[p] = {} /\ flipped'[p] = {}
            /\ pc[p] = "done"
               => (created'[p] = created[p] /\ flipped'[p] = flipped[p]
                   /\ outcome'[p] = outcome[p])]_vars

\* C9 witness: a subject that has a STUDENT row came back with an instructor
\* email and was handed the STUDENT row.
C9_Witness ==
    \E p \in Procs :
        /\ FoundAtLookup(p)
        /\ isInstructorEmail(user[p].email)
        /\ outcome[p].role = "STUDENT"
        /\ \E r \in platformUser : r.id = outcome[p].id /\ r.role = "STUDENT"

\* C10: with an identity of role r attached, requireAdmin forwards iff r is ADMIN,
\* requireInstructor iff r is ADMIN or INSTRUCTOR, requireStudent iff r is
\* STUDENT; every other combination is answered 403.
C10_GateTable ==
    (gateResp # NoResp /\ gateResp.user # NoUser)
    => LET r == gateResp.user.role
           allowed ==
               \/ gateResp.gate = "requireAdmin" /\ r = "ADMIN"
               \/ gateResp.gate = "requireInstructor" /\ r \in {"ADMIN", "INSTRUCTOR"}
               \/ gateResp.gate = "requireStudent" /\ r = "STUDENT"
       IN  /\ r \in {"ADMIN", "INSTRUCTOR", "STUDENT"}
           /\ IF allowed
              THEN gateResp.next = 1 /\ gateResp.status = 0
              ELSE gateResp.next = 0 /\ gateResp.status = 403

\* C10 witness: an ADMIN was turned away by the student gate.
C10_Witness ==
    /\ gateResp # NoResp /\ gateResp.user # NoUser
    /\ gateResp.gate = "requireStudent"
    /\ gateResp.user.role = "ADMIN"
    /\ gateResp.status = 403

\* C11: a gate run without an attached identity answers 401 with a status and a
\* message and does not look at the role; a gate that answers 401 or 403 does not
\* invoke next; a gate that lets the request through invokes next exactly once;
\* and the identity attached to the request is the same after the gate as before.
C11_GateRejectsWithoutNext ==
    gateResp # NoResp
    => /\ gateResp.gate \in {"requireAdmin", "requireInstructor", "requireStudent"}
       /\ gateResp.user = NoUser
            => /\ gateResp.status = 401
               /\ gateResp.message = "Unauthorized: No active session"
       /\ gateResp.status \in {0, 401, 403}
       /\ gateResp.status \in {401, 403} => (gateResp.next = 0 /\ gateResp.message # "")
       /\ gateResp.status = 401 => gateResp.user = NoUser
       /\ gateResp.status = 0 => gateResp.next = 1
       /\ CtxUser(gateResp.proc) = gateResp.user

\* C11 witness: the instructor gate answered 401 to a request whose callback threw.
C11_Witness ==
    /\ gateResp # NoResp
    /\ gateResp.gate = "requireInstructor"
    /\ gateResp.user = NoUser
    /\ gateResp.status = 401
    /\ gateResp.next = 0
    /\ pc[gateResp.proc] = "failed"

\* C12: a callback refused for its domain and a callback refused because its
\* instructor email is not listed end with the same failure value.
C12_SameUnauthorized ==
    \A p, q \in Procs :
        (outcome[p] = Error(ErrDomain) /\ outcome[q].kind = "error"
            /\ isInstructorEmail(user[q].email) /\ ~FoundAtLookup(q)
            /\ "instructorSearch.findUnique" \in storeOps[q]
            /\ "platformUser.create" \notin storeOps[q])
        => outcome[p] = outcome[q]

\* the callback of subject u1 called once with any of the emails above, up to
\* the branch it takes after a lookup that finds nothing
NextClassify ==
    \/ \E e \in ClassifyInputs : Call(1, "u1", e)
    \/ FindUser(1)

SpecClassify == Init /\ [][NextClassify]_vars

\* the class the callback gave the email, read off the branch it took
ClassOf(p) ==
    IF outcome[p] = Error(ErrDomain) THEN "Rejected"
    ELSE IF pc[p] = "findListing" THEN "InstructorCandidate"
    ELSE IF pc[p] = "createStudent" THEN "Student"
    ELSE "none"

Unauthorized(p) == outcome[p] \in {Error(ErrDomain), Error(ErrNotListed)}

\* the subject has a row that was put in platformUser beforehand
Provisioned(userId) ==
    \E r \in platformUser \cap UNION ProvisionedAdmins : r.userId = userId

\* C14: for an instructor email E and a subject S without a row: a callback ends
\* with the not-listed error while E has no entry; and a callback called once E is
\* listed, with every other callback ended in Unauthorized, returns an INSTRUCTOR
\* row bound to S that it created itself and leaves the entry consumed.
C14_ListedAfterRefusal ==
    \A q \in Procs :
        (Called(q) /\ isInstructorEmail(user[q].email) /\ Finished(q)
            /\ ~Provisioned(user[q].id))
        => /\ (EntryState(user[q].email) = "absent" /\ RowsOf(user[q].id) = {})
                => outcome[q] = Error(ErrNotListed)
           /\ (/\ entryAtCall[q] = "unconsumed"
               /\ \A r \in Procs \ {q} : Called(r) => Unauthorized(r))
                => /\ pc[q] = "done"
                   /\ outcome[q] = Augmented(local[q])
                   /\ local[q].role = "INSTRUCTOR"
                   /\ RowsOf(user[q].id) = {local[q]}
                   /\ created[q] = {local[q].id}
                   /\ EntryState(user[q].email) = "consumed"
                   /\ flipped[q] = {user[q].email}

\* C14 witness: p was refused while the email had no entry; q, the same subject
\* with the same email, was called once it was listed and became INSTRUCTOR.
C14_Witness ==
    \E p, q \in Procs :
        /\ p # q /\ Called(p) /\ Called(q) /\ user[p] = user[q]
        /\ entryAtCall[p] = "absent" /\ outcome[p] = Error(ErrNotListed)
        /\ entryAtCall[q] = "unconsumed" /\ pc[q] = "done"
        /\ outcome[q].role = "INSTRUCTOR"
        /\ created[q] # {}
        /\ EntryState(user[q].email) = "consumed"

\* C15: of two callbacks of the same subject with a student email that have both
\* ended, neither ended in an error: both returned the same identity.
C15_LoserReturnsWinner ==
    \A p, q \in Procs :
        (/\ p # q /\ Called(p) /\ Called(q) /\ user[p] = user[q]
         /\ studentEmailPattern(user[p].email)
         /\ Finished(p) /\ Finished(q))
        => (outcome[p].kind = "ok" /\ outcome[q] = outcome[p])

\* C16: no step takes havePlatformId of an entry from true to false or removes
\* the entry; a step takes it from false to true only as the update of a callback
\* for that email that has created an INSTRUCTOR row; and no step of a callback
\* for a student or rejected email, and no lookup by userId, changes any entry.
C16_ConsumedOnce ==
    [][/\ \A e \in Emails :
            /\ EntryState(e) = "consumed" => EntryState(e)' = "consumed"
            /\ EntryState(e) = "unconsumed" => EntryState(e)' # "absent"
            /\ (EntryState(e) = "unconsumed" /\ EntryState(e)' = "consumed")
                => \E p \in Procs :
                    /\ pc[p] = "updateListing" /\ pc'[p] = "done"
                    /\ user[p].email = e /\ isInstructorEmail(e)
                    /\ InstructorRowsOf(p) # {}
                    /\ flipped'[p] = {e}
       /\ \A p \in Procs :
            (/\ pc'[p] # pc[p]
             /\ \/ ~isInstructorEmail(user'[p].email)
                \/ pc[p] \in {"idle", "findUser"})
            => instructorSearch' = instructorSearch]_vars

\* C16 witness: an entry was consumed by a callback that created an INSTRUCTOR
\* row, while a callback for a student email created its row.
C16_Witness ==
    \E p, q \in Procs :
        /\ pc[p] = "done" /\ flipped[p] # {} /\ InstructorRowsOf(p) # {}
        /\ EntryState(user[p].email) = "consumed"
        /\ Called(q) /\ studentEmailPattern(user[q].email)
        /\ pc[q] = "done" /\ created[q] # {}

\* C17: a row a callback inserted has role INSTRUCTOR iff the callback's email is
\* an instructor email and STUDENT iff it is a student email, never ADMIN; a
\* callback returns role ADMIN only for a row that was provisioned beforehand.
C17_RoleByClass ==
    \A p \in Procs :
        /\ \A r \in platformUser :
            r.id \in created[p]
            => /\ r.role \in {"INSTRUCTOR", "STUDENT"}
               /\ r.role = "INSTRUCTOR" <=> isInstructorEmail(user[p].email)
               /\ r.role = "STUDENT" <=> studentEmailPattern(user[p].email)
               /\ r.userId = user[p].id
        /\ (outcome[p].kind = "ok" /\ outcome[p].role = "ADMIN")
            => /\ created[p] = {}
               /\ \E r \in platformUser \cap UNION ProvisionedAdmins :
                    r.id = outcome[p].id /\ r.userId = user[p].id

\* C17 witness: a provisioned ADMIN got role ADMIN back for a student email while
\* another subject's instructor callback created an INSTRUCTOR row.
C17_Witness ==
    \E p, q \in Procs :
        /\ pc[p] = "done" /\ outcome[p].role = "ADMIN"
        /\ studentEmailPattern(user[p].email)
        /\ Called(q) /\ InstructorRowsOf(q) # {}

====
